---- MODULE Spec2Model ----
(***************************************************************************)
(* cG(q) solver, piecewise evaluation, goal-oriented error estimator and   *)
(* numerical-stopping-time locator of Error-Estimates-Threshold-Time.      *)
(*                                                                         *)
(* Real numbers are modelled exactly: a value is a reduced fraction        *)
(* <<n, d>> with d > 0.  A float64 division by zero (numpy yields inf or   *)
(* nan and carries on) is the marker NonFinite, which every later          *)
(* operation propagates: the vectors and meshes are numpy arrays, as       *)
(* solve_lin returns them and as get_err_lin's TY.tolist() requires.       *)
(* Python sequences are TLA+ sequences shifted by one: Python's s[k] is    *)
(* s[k + 1].                                                               *)
(***************************************************************************)
EXTENDS Integers, Sequences, FiniteSets, TLC

VARIABLES
    pc,      \* where the running call stands
    args,    \* the arguments of the call
    y,       \* solve_lin: the nodal vector being filled
    writes,  \* solve_lin: how many times each entry of y has been assigned
    n,       \* solve_lin, get_err_lin: the subinterval loop counter
    grid,    \* get_err_lin: the reconciled grid t
    Eloc,    \* get_err_lin: the per-subinterval contributions
    ret      \* what the call returned or raised

locals == <<y, writes, n, grid, Eloc>>
vars == <<pc, args, y, writes, n, grid, Eloc, ret>>

\* no call has touched the locals yet
NoLocals == y = <<>> /\ writes = <<>> /\ n = 0 /\ grid = <<>> /\ Eloc = <<>>

(***************************************************************************)
(* Bounds of the model.                                                    *)
(***************************************************************************)
\* window_numtime: trajectories of at most WinMaxLen entries, so every
\* degree q >= 1 and every mesh of M >= 2 nodes with (M-1)*q+1 <= WinMaxLen;
\* trajectory values in 0..WinMaxVal
WinMaxLen == 7
WinMaxVal == 2
\* evalfunc / evalderiv: nodal vectors of at most EvalMaxLen entries, so
\* every degree q >= 1 and N >= 1 subintervals with N*q+1 <= EvalMaxLen; mesh
\* nodes out of 0..EvalMaxT, query points the half-integers of -1..EvalMaxT+1
EvalMaxLen == 5
EvalMaxT == 3
\* solve_lin: mesh nodes out of 0..SolveMaxT
SolveMaxT == 3
\* get_err_lin: forward mesh nodes out of 0..ErrMaxT, adjoint terminal times
\* the half-integers of -1..ErrMaxT+1
ErrMaxT == 3

(***************************************************************************)
(* Exact arithmetic.                                                       *)
(***************************************************************************)
Abs(a) == IF a < 0 THEN -a ELSE a

RECURSIVE GCD(_, _)
GCD(a, b) == IF b = 0 THEN a ELSE GCD(b, a % b)

\* the reduced fraction num/den, den # 0
Frac(num, den) ==
    LET g == GCD(Abs(num), Abs(den))
        sg == IF den < 0 THEN -1 ELSE 1
    IN  <<sg * (num \div g), sg * (den \div g)>>

R(k) == <<k, 1>>
NonFinite == <<1, 0>>
IsFinite(a) == a[2] # 0

RAdd(a, b) == IF IsFinite(a) /\ IsFinite(b)
              THEN LET g == GCD(a[2], b[2])
                   IN  Frac(a[1] * (b[2] \div g) + b[1] * (a[2] \div g),
                            (a[2] \div g) * b[2])
              ELSE NonFinite
RNeg(a) == IF IsFinite(a) THEN <<-a[1], a[2]>> ELSE NonFinite
RSub(a, b) == RAdd(a, RNeg(b))
RMul(a, b) == IF IsFinite(a) /\ IsFinite(b)
              THEN LET g1 == GCD(Abs(a[1]), b[2])
                       g2 == GCD(Abs(b[1]), a[2])
                   IN  <<(a[1] \div g1) * (b[1] \div g2),
                         (a[2] \div g2) * (b[2] \div g1)>>
              ELSE NonFinite
\* float64 division: a zero divisor gives inf/nan, not an exception
RDiv(a, b) == IF IsFinite(a) /\ IsFinite(b) /\ b[1] # 0
              THEN Frac(a[1] * b[2], a[2] * b[1]) ELSE NonFinite
\* comparisons with inf/nan operands are never taken by the model
RLt(a, b) == IsFinite(a) /\ IsFinite(b) /\ a[1] * b[2] < b[1] * a[2]
RLe(a, b) == IsFinite(a) /\ IsFinite(b) /\ a[1] * b[2] <= b[1] * a[2]

(***************************************************************************)
(* Python sequence semantics.                                              *)
(***************************************************************************)
\* s[k] is defined for -len <= k < len; anything else raises IndexError
PyInRange(s, k) == -Len(s) <= k /\ k < Len(s)
PyIndex(s, k) == IF k < 0 THEN s[Len(s) + k + 1] ELSE s[k + 1]

\* s[0:stop]: a negative stop counts from the end, and the slice is clamped
PySliceTo(s, stop) ==
    LET e0 == IF stop < 0 THEN Len(s) + stop ELSE stop
        e  == IF e0 < 0 THEN 0 ELSE IF e0 > Len(s) THEN Len(s) ELSE e0
    IN  SubSeq(s, 1, e)

\* the strictly increasing integer sequences of length len over lo..hi
RECURSIVE IncSeqs(_, _, _)
IncSeqs(len, lo, hi) ==
    IF len = 0 THEN {<<>>}
    ELSE UNION {{<<a>> \o rest : rest \in IncSeqs(len - 1, a + 1, hi)} : a \in lo..hi}

ToR(s) == [k \in 1..Len(s) |-> R(s[k])]

(***************************************************************************)
(* basis_functions.py                                                      *)
(***************************************************************************)
\* np.linspace(initial, final, num)[k]: initial + k*step, the last node final
Linspace(initial, final, num, k) ==
    IF num = 1 THEN initial
    ELSE IF k = num - 1 THEN final
    ELSE RAdd(initial, RMul(R(k), RDiv(RSub(final, initial), R(num - 1))))

\* the product over k = from..last, k not in skip, of (x-I[k])/(I[j]-I[k]),
\* I = linspace(initial, final, num)
RECURSIVE NodeProduct(_, _, _, _, _, _, _, _)
NodeProduct(initial, final, num, j, skip, x, from, last) ==
    IF from > last THEN R(1)
    ELSE LET rest == NodeProduct(initial, final, num, j, skip, x, from + 1, last)
         IN  IF from \in skip THEN rest
             ELSE RMul(RDiv(RSub(x, Linspace(initial, final, num, from)),
                            RSub(Linspace(initial, final, num, j),
                                 Linspace(initial, final, num, from))),
                       rest)

Lagr(initial, final, degree, j, x) ==
    NodeProduct(initial, final, degree + 1, j, {j}, x, 0, degree)

RECURSIVE dLagrSum(_, _, _, _, _, _)
dLagrSum(initial, final, degree, j, x, m) ==
    IF m > degree THEN R(0)
    ELSE LET v == NodeProduct(initial, final, degree + 1, j, {j, m}, x, 0, degree)
             rest == dLagrSum(initial, final, degree, j, x, m + 1)
         IN  IF m # j
             THEN RAdd(RMul(RDiv(R(1), RSub(Linspace(initial, final, degree + 1, j),
                                            Linspace(initial, final, degree + 1, m))),
                            v),
                       rest)
             ELSE rest

dLagr(initial, final, degree, j, x) == dLagrSum(initial, final, degree, j, x, 0)

TestLagr(initial, final, degree, j, x) ==
    IF degree > 1
    THEN NodeProduct(initial, final, degree, j, {j}, x, 0, degree - 1)
    ELSE R(1)

\* the basis function evalfunc ("Lagr") or evalderiv ("dLagr") calls
Basis(name, initial, final, degree, j, x) ==
    IF name = "Lagr" THEN Lagr(initial, final, degree, j, x)
    ELSE dLagr(initial, final, degree, j, x)

\* sum over j = from..q of Y[q*i+j] * basis(t[i], t[i+1], q, j, x)
RECURSIVE LocalSum(_, _, _, _, _, _, _)
LocalSum(basis, Y, t, q, x, i, from) ==
    IF from > q THEN R(0)
    ELSE RAdd(RMul(PyIndex(Y, q * i + from),
                   Basis(basis, PyIndex(t, i), PyIndex(t, i + 1), q, from, x)),
              LocalSum(basis, Y, t, q, x, i, from + 1))

\* for i in range(n-1): if t[i]<=x<t[i+1]: ans += local sum (no break)
RECURSIVE PiecewiseSum(_, _, _, _, _, _)
PiecewiseSum(basis, Y, t, q, x, i) ==
    IF i > Len(t) - 2 THEN R(0)
    ELSE RAdd(IF RLe(PyIndex(t, i), x) /\ RLt(x, PyIndex(t, i + 1))
              THEN LocalSum(basis, Y, t, q, x, i, 0) ELSE R(0),
              PiecewiseSum(basis, Y, t, q, x, i + 1))

\* evalfunc without the arm for the final mesh point
evalfuncNoFinalArm(Y, t, q, x) ==
    [status |-> "returned", branch |-> "search",
     value |-> PiecewiseSum("Lagr", Y, t, q, x, 0)]

\* branch records which arm of line 49 produced the value
evalfunc(Y, t, q, x) ==
    IF x = PyIndex(t, -1)
    THEN [status |-> "returned", value |-> PyIndex(Y, -1), branch |-> "final"]
    ELSE [status |-> "returned", branch |-> "search",
          value |-> PiecewiseSum("Lagr", Y, t, q, x, 0)]

evalderiv(Y, t, q, x) ==
    [status |-> "returned", branch |-> "search",
     value |-> PiecewiseSum("dLagr", Y, t, q, x, 0)]

(***************************************************************************)
(* solvers.py                                                              *)
(*                                                                         *)
(* leggauss(5q) has irrational nodes; what the code relies on is that the  *)
(* rule integrates polynomials of degree <= 10q-1 exactly.  The model      *)
(* integrates with the open five-point Newton-Cotes rule, whose nodes are  *)
(* rational and interior like the Gauss nodes and which is exact up to     *)
(* degree 5: on every integrand the model builds (degree <= 5) the two     *)
(* rules give the same number.  The coefficient function F ranges over the *)
(* constant functions.                                                     *)
(***************************************************************************)
QuadWeights == <<11, -14, 26, -14, 11>>

\* the coefficient function F(x) = c
Coef(F, x) == F

\* A Python closure is the record of the variables it captured.  The
\* lambda of solvers.py line 38, and the integrand of lines 35-38 of
\* NSQoI_and_error_functions.py, applied to x:
Apply(expression, x) ==
    IF expression.fn = "expr"
    THEN RMul(TestLagr(expression.initial, expression.final, expression.q,
                       expression.j, x),
              RSub(dLagr(expression.initial, expression.final, expression.q,
                         expression.i, x),
                   RMul(Coef(expression.F, x),
                        Lagr(expression.initial, expression.final, expression.q,
                             expression.i, x))))
    ELSE RMul(evalfunc(expression.phi, expression.tphi, expression.q2, x).value,
              RAdd(RNeg(evalderiv(expression.Y, expression.ty, expression.q, x).value),
                   RMul(Coef(expression.F, x),
                        evalfunc(expression.Y, expression.ty, expression.q, x).value)))

RECURSIVE QuadSum(_, _, _, _)
QuadSum(expression, initial, final, k) ==
    IF k > Len(QuadWeights) THEN R(0)
    ELSE LET C == RDiv(RSub(final, initial), R(20))
             g == RAdd(initial, RMul(Frac(k, Len(QuadWeights) + 1), RSub(final, initial)))
         IN  RAdd(RMul(RMul(C, R(QuadWeights[k])), Apply(expression, g)),
                  QuadSum(expression, initial, final, k + 1))

GaussQuad(initial, final, degree, expression) ==
    QuadSum(expression, initial, final, 1)

\* a[j,i] of line 39, j = 0..q-1, i = 0..q
LocalEntry(initial, final, q, F, j, i) ==
    GaussQuad(initial, final, 5 * q,
              [fn |-> "expr", initial |-> initial, final |-> final, q |-> q,
               F |-> F, j |-> j, i |-> i])

\* determinant by expansion along the first row
RECURSIVE Det(_)
Minor(A, c) ==
    [r \in 1..(Len(A) - 1) |->
        [k \in 1..(Len(A) - 1) |-> A[r + 1][IF k < c THEN k ELSE k + 1]]]

RECURSIVE DetSum(_, _)
DetSum(A, c) ==
    IF c > Len(A) THEN R(0)
    ELSE RAdd(RMul(RMul(R(IF c % 2 = 1 THEN 1 ELSE -1), A[1][c]), Det(Minor(A, c))),
              DetSum(A, c + 1))

Det(A) == IF Len(A) = 1 THEN A[1][1] ELSE DetSum(A, 1)

\* np.linalg.solve(A, b): LinAlgError when A is singular
LinalgSolve(A, b) ==
    LET d == Det(A)
    IN  IF d = R(0) THEN [status |-> "LinAlgError"]
        ELSE [status |-> "ok",
              s |-> [c \in 1..Len(A) |->
                       RDiv(Det([r \in 1..Len(A) |->
                                   [k \in 1..Len(A) |->
                                      IF k = c THEN b[r] ELSE A[r][k]]]), d)]]

\* the right-hand side with its sign lost: b = y[n*q]*a[:,0]
LocalSystemUnsigned(initial, final, q, F, yprev) ==
    LET A == [j \in 1..q |-> [i \in 1..q |-> LocalEntry(initial, final, q, F, j - 1, i)]]
        b == [j \in 1..q |-> RMul(yprev, LocalEntry(initial, final, q, F, j - 1, 0))]
    IN  LinalgSolve(A, b)

\* lines 35-46: the local matrix a, its split into A and b, and the solve
LocalSystem(initial, final, q, F, yprev) ==
    LET A == [j \in 1..q |-> [i \in 1..q |-> LocalEntry(initial, final, q, F, j - 1, i)]]
        b == [j \in 1..q |-> RMul(RNeg(yprev), LocalEntry(initial, final, q, F, j - 1, 0))]
    IN  LinalgSolve(A, b)

\* the local solution written one entry early: y[n*q:(n+1)*q]=s
WriteSliceEarly(v, n0, q, s) ==
    [k \in 1..Len(v) |->
        IF n0 * q <= k - 1 /\ k - 1 <= (n0 + 1) * q - 1
        THEN s[k - n0 * q] ELSE v[k]]

\* line 48: y[n*q+1:(n+1)*q+1]=s
WriteSlice(v, n0, q, s) ==
    [k \in 1..Len(v) |->
        IF n0 * q + 1 <= k - 1 /\ k - 1 <= (n0 + 1) * q
        THEN s[k - 1 - n0 * q] ELSE v[k]]

(***************************************************************************)
(* NSQoI_and_error_functions.py: window_numtime                            *)
(***************************************************************************)
\* a loop test that compares the two mesh-node values Y[q*i], Y[q*i+q]
StraddlesNodes(Y, q, target, i) ==
    \/ RLt(target, PyIndex(Y, q * i)) /\ RLt(PyIndex(Y, q * i + q), target)
    \/ RLt(PyIndex(Y, q * i), target) /\ RLt(target, PyIndex(Y, q * i + q))

\* the loop test of lines 55 and 69
Straddles(Y, q, target, i) ==
    \/ RLt(target, PyIndex(Y, q * i)) /\ RLt(PyIndex(Y, q * i + 1), target)
    \/ RLt(PyIndex(Y, q * i), target) /\ RLt(target, PyIndex(Y, q * i + 1))

\* for i in range(M-1): ... break -- the first i at or after `from` that
\* straddles, or -1 when the loop runs out
RECURSIVE Scan(_, _, _, _, _)
Scan(Y, M, q, target, from) ==
    IF from > M - 2 THEN -1
    ELSE IF Straddles(Y, q, target, from) THEN from
    ELSE Scan(Y, M, q, target, from + 1)

window_numtime(Y, t, q, target) ==
    LET M == Len(t)
        i == Scan(Y, M, q, target, 0)
    IN  IF i = -1
        THEN \* line 84 reads Y1, which no branch has bound
             [status |-> "UnboundLocalError"]
        ELSE IF ~PyInRange(t, i + 2)
        THEN \* line 66 / 80: tR=t[i+2]
             [status |-> "IndexError"]
        ELSE LET t1 == PyIndex(t, i)
                 t2 == PyIndex(t, i + 1)
                 Y1 == PySliceTo(Y, q * i + 1)
                 Y2 == PySliceTo(Y, q * i + q + 1)
                 YL == PySliceTo(Y, q * i - q + 1)
                 YR == PySliceTo(Y, q * i + 2 * q + 1)
                 s  == RDiv(RSub(target, PyIndex(Y1, -1)),
                            RSub(PyIndex(Y2, -1), PyIndex(Y1, -1)))
                 num_time == RAdd(RMul(s, t2), RMul(RSub(R(1), s), t1))
             IN  [status |-> "returned",
                  YL |-> YL, Y1 |-> Y1, Y2 |-> Y2, YR |-> YR,
                  NL |-> i - 1, N1 |-> i, N2 |-> i + 1, NR |-> i + 2,
                  tL |-> PyIndex(t, i - 1), t1 |-> t1, t2 |-> t2,
                  tR |-> PyIndex(t, i + 2),
                  s |-> s, num_time |-> num_time]

\* the mesh of the window specification: graded, t[i] = i*(i+1)/2, so that
\* no two subintervals have the same length
WinMeshes(M) == {[k \in 1..M |-> R(((k - 1) * k) \div 2)]}

\* the (M, q) with M >= 2 nodes, degree q >= 1 and (M-1)*q+1 <= WinMaxLen
WinShapes == {sh \in (2..WinMaxLen) \X (1..WinMaxLen) :
                 (sh[1] - 1) * sh[2] + 1 <= WinMaxLen}

\* targets: the integers strictly inside the value range and the half-integer
\* just below its top (no target outside the range can be straddled)
WinArgs ==
    UNION {
        [fn : {"window_numtime"},
         Y : [1..((sh[1] - 1) * sh[2] + 1) -> {R(v) : v \in 0..WinMaxVal}],
         t : WinMeshes(sh[1]),
         q : {sh[2]},
         target : {R(v) : v \in 1..(WinMaxVal - 1)} \cup {Frac(2 * WinMaxVal - 1, 2)}]
      : sh \in WinShapes}

InitWindow ==
    /\ pc = "call"
    /\ args \in WinArgs
    /\ NoLocals
    /\ ret = [status |-> "none"]

CallWindow ==
    /\ pc = "call"
    /\ args.fn = "window_numtime"
    /\ ret' = window_numtime(args.Y, args.t, args.q, args.target)
    /\ pc' = "done"
    /\ UNCHANGED <<args, locals>>

NextWindow == CallWindow

SpecWindow == InitWindow /\ [][NextWindow]_vars

(***************************************************************************)
(* Claims about window_numtime.                                            *)
(***************************************************************************)
\* the subintervals i of 0..M-2 whose values Y[q*i], Y[q*i+1] lie strictly
\* on opposite sides of the target, stated on the call's arguments
WinCrossings ==
    {i \in 0..(Len(args.t) - 2) :
        LET a == args.Y[args.q * i + 1]
            b == args.Y[args.q * i + 2]
            g == args.target
        IN  \/ a[1] * g[2] > g[1] * a[2] /\ b[1] * g[2] < g[1] * b[2]
            \/ a[1] * g[2] < g[1] * a[2] /\ b[1] * g[2] > g[1] * b[2]}

WinFirst == CHOOSE i \in WinCrossings : \A j \in WinCrossings : i <= j

WinCalled == pc = "done" /\ args.fn = "window_numtime"

\* C1: when the least straddling subinterval i has 1 <= i <= M-3, the call
\* returns N1 = i, N2 = i+1, NL = i-1, NR = i+2, the four mesh times of those
\* nodes, and YL, Y1, Y2, YR the prefixes of Y of lengths q*NL+1, q*N1+1,
\* q*N2+1, q*NR+1; a later crossing is never the one returned.
C1_FirstCrossingContext ==
    (WinCalled /\ WinCrossings # {} /\ 1 <= WinFirst /\ WinFirst <= Len(args.t) - 3)
    => /\ ret.status = "returned"
       /\ ret.N1 = WinFirst
       /\ ret.N2 = ret.N1 + 1 /\ ret.NL = ret.N1 - 1 /\ ret.NR = ret.N1 + 2
       /\ ret.t1 = args.t[ret.N1 + 1] /\ ret.t2 = args.t[ret.N2 + 1]
       /\ ret.tL = args.t[ret.NL + 1] /\ ret.tR = args.t[ret.NR + 1]
       /\ ret.YL = SubSeq(args.Y, 1, args.q * ret.NL + 1)
       /\ ret.Y1 = SubSeq(args.Y, 1, args.q * ret.N1 + 1)
       /\ ret.Y2 = SubSeq(args.Y, 1, args.q * ret.N2 + 1)
       /\ ret.YR = SubSeq(args.Y, 1, args.q * ret.NR + 1)

\* a call on a degree-2 trajectory with two crossings, the first interior
C1_Witness ==
    /\ WinCalled /\ args.q >= 2
    /\ Cardinality(WinCrossings) >= 2
    /\ 1 <= WinFirst /\ WinFirst <= Len(args.t) - 3
    /\ ret.status = "returned" /\ ret.N1 = WinFirst

\* C2: whenever a crossing is found and a context returned, s is well
\* defined with 0 < s < 1 and t1 < num_time < t2, for every degree q >= 1.
\* Stated on the calls that are none of the failure cases of C3 (the found
\* subinterval has a left neighbour and Y2_last # Y1_last).
C2_FractionInUnitInterval ==
    (/\ WinCalled /\ ret.status = "returned"
     /\ ret.N1 >= 1
     /\ PyIndex(ret.Y2, -1) # PyIndex(ret.Y1, -1))
    => /\ IsFinite(ret.s)
       /\ RLt(R(0), ret.s) /\ RLt(ret.s, R(1))
       /\ RLt(ret.t1, ret.num_time) /\ RLt(ret.num_time, ret.t2)

\* C3: no context is returned when no subinterval straddles the target,
\* when the first straddling one is subinterval 0 or subinterval M-2, or when
\* Y2_last = Y1_last; a returned context never has a negative NL.
C3_FailuresReported ==
    WinCalled =>
       /\ (\/ WinCrossings = {}
           \/ WinFirst = 0
           \/ WinFirst = Len(args.t) - 2
           \/ args.Y[args.q * WinFirst + 1] = args.Y[args.q * (WinFirst + 1) + 1])
          => ret.status # "returned"
       /\ ret.status = "returned" => ret.NL >= 0

(***************************************************************************)
(* evalfunc and evalderiv applied to bounded inputs.                       *)
(***************************************************************************)
\* the (N, q) with N >= 1 subintervals, degree q >= 1 and N*q+1 <= EvalMaxLen
EvalShapes == {sh \in (1..EvalMaxLen) \X (1..EvalMaxLen) :
                  sh[1] * sh[2] + 1 <= EvalMaxLen}

\* nodal values: both functions are linear in Y
EvalValues == {R(0), R(1)}

EvalPoints == {Frac(k, 2) : k \in (-2)..(2 * EvalMaxT + 2)}

EvalArgs ==
    UNION {
        [fn : {"evalfunc", "evalderiv"},
         Y : [1..(sh[1] * sh[2] + 1) -> EvalValues],
         t : {ToR(m) : m \in IncSeqs(sh[1] + 1, 0, EvalMaxT)},
         q : {sh[2]},
         x : EvalPoints]
      : sh \in EvalShapes}

InitEval ==
    /\ pc = "call"
    /\ args \in EvalArgs
    /\ NoLocals
    /\ ret = [status |-> "none"]

CallEvalfunc ==
    /\ pc = "call"
    /\ args.fn = "evalfunc"
    /\ ret' = evalfunc(args.Y, args.t, args.q, args.x)
    /\ pc' = "done"
    /\ UNCHANGED <<args, locals>>

CallEvalderiv ==
    /\ pc = "call"
    /\ args.fn = "evalderiv"
    /\ ret' = evalderiv(args.Y, args.t, args.q, args.x)
    /\ pc' = "done"
    /\ UNCHANGED <<args, locals>>

NextEval == CallEvalfunc \/ CallEvalderiv

SpecEval == InitEval /\ [][NextEval]_vars

EvalfuncCalled == pc = "done" /\ args.fn = "evalfunc"
EvalderivCalled == pc = "done" /\ args.fn = "evalderiv"

\* C4: for a query point x < mesh[0] or x > mesh[-1], evalfunc and evalderiv
\* report a domain error and return no value.
C4_DomainErrorReported ==
    (/\ EvalfuncCalled \/ EvalderivCalled
     /\ RLt(args.x, args.t[1]) \/ RLt(args.t[Len(args.t)], args.x))
    => ret.status = "DomainError"

\* C7: evalfunc at mesh node i returns the stored nodal value Y[q*i], and at
\* the final mesh point it returns Y[-1] from the direct branch.
C7_NodalRoundTrip ==
    EvalfuncCalled =>
       /\ \A i \in 0..(Len(args.t) - 1) :
             args.x = args.t[i + 1]
             => ret.status = "returned" /\ ret.value = args.Y[args.q * i + 1]
       /\ args.x = args.t[Len(args.t)]
          => ret.branch = "final" /\ ret.value = args.Y[Len(args.Y)]

\* evalfunc at an interior mesh node of a degree >= 2 vector whose
\* neighbouring entries differ from the nodal value
C7_Witness ==
    /\ EvalfuncCalled /\ args.q >= 2
    /\ \E i \in 1..(Len(args.t) - 2) :
          /\ args.x = args.t[i + 1]
          /\ args.Y[args.q * i + 1] # args.Y[args.q * i]
          /\ args.Y[args.q * i + 1] # args.Y[args.q * i + 2]
          /\ ret.value = args.Y[args.q * i + 1]

\* the derivative at x of the last subinterval's polynomial
LastPieceDerivative ==
    LET N == Len(args.t) - 1
    IN  LocalSum("dLagr", args.Y, args.t, args.q, args.x, N - 1, 0)

\* C10: evalderiv at x = mesh[-1] returns the derivative of the last
\* subinterval's polynomial, sum_j Y[q*(N-1)+j] * dLagr(mesh[N-1], mesh[N], q, j, x).
C10_DerivativeAtFinalPoint ==
    (EvalderivCalled /\ args.x = args.t[Len(args.t)])
    => ret.value = LastPieceDerivative

(***************************************************************************)
(* solve_lin, one action per subinterval of the loop of line 28.           *)
(***************************************************************************)
\* degrees whose local integrands stay within the exactness of the rule
SolveDegrees == {1, 2}
SolveCoeffs == {R(-1), R(0), R(1), R(2)}
SolveInitials == {R(-1), R(1), R(2)}

SolveArgs ==
    [fn : {"solve_lin"},
     y0 : SolveInitials,
     F : SolveCoeffs,
     t : UNION {{ToR(m) : m \in IncSeqs(N + 1, 0, SolveMaxT)} : N \in 1..SolveMaxT},
     q : SolveDegrees]

InitSolve ==
    /\ pc = "call"
    /\ args \in SolveArgs
    /\ NoLocals
    /\ ret = [status |-> "none"]

\* lines 21-25
SolveEnter ==
    /\ pc = "call"
    /\ args.fn = "solve_lin"
    /\ LET N == Len(args.t) - 1
       IN  /\ y' = [k \in 1..(N * args.q + 1) |-> IF k = 1 THEN args.y0 ELSE R(0)]
           /\ writes' = [k \in 1..(N * args.q + 1) |-> IF k = 1 THEN 1 ELSE 0]
    /\ n' = 0
    /\ pc' = "loop"
    /\ UNCHANGED <<args, grid, Eloc, ret>>

\* lines 28-48, one pass of the loop body
SolveStep ==
    /\ pc = "loop"
    /\ args.fn = "solve_lin"
    /\ n < Len(args.t) - 1
    /\ LET r == LocalSystem(PyIndex(args.t, n), PyIndex(args.t, n + 1),
                            args.q, args.F, PyIndex(y, n * args.q))
       IN  IF r.status = "ok"
           THEN /\ y' = WriteSlice(y, n, args.q, r.s)
                /\ writes' = [k \in 1..Len(writes) |->
                                IF n * args.q + 1 <= k - 1 /\ k - 1 <= (n + 1) * args.q
                                THEN writes[k] + 1 ELSE writes[k]]
                /\ n' = n + 1
                /\ UNCHANGED <<pc, ret>>
           ELSE /\ pc' = "raised"
                /\ ret' = [status |-> r.status]
                /\ UNCHANGED <<y, writes, n>>
    /\ UNCHANGED <<args, grid, Eloc>>

\* line 50
SolveReturn ==
    /\ pc = "loop"
    /\ args.fn = "solve_lin"
    /\ n = Len(args.t) - 1
    /\ ret' = [status |-> "returned", value |-> y]
    /\ pc' = "done"
    /\ UNCHANGED <<args, locals>>

NextSolve == SolveEnter \/ SolveStep \/ SolveReturn

SpecSolve == InitSolve /\ [][NextSolve]_vars

SolveN == Len(args.t) - 1
SolveRunning == args.fn = "solve_lin" /\ pc \in {"loop", "done", "raised"}

SolveShape ==
    SolveRunning
    => /\ Len(y) = SolveN * args.q + 1
       /\ y[1] = args.y0
       /\ 0 <= n /\ n <= SolveN
       /\ \A k \in 1..Len(y) : writes[k] = IF k - 1 <= n * args.q THEN 1 ELSE 0
       /\ pc = "done" => n = SolveN /\ ret.value = y

\* one pass of the loop: n advances by one, the entries at indices <= n*q
\* and > (n+1)*q keep their values, and exactly n*q+1..(n+1)*q are assigned;
\* any other step of the call leaves y alone
SolveFrame ==
    (SolveRunning /\ pc = "loop")
    => IF pc' = "loop"
       THEN /\ n' = n + 1
            /\ Len(y') = Len(y)
            /\ \A k \in 1..Len(y) :
                  /\ (k - 1 <= n * args.q \/ k - 1 > (n + 1) * args.q)
                     => y'[k] = y[k] /\ writes'[k] = writes[k]
                  /\ (n * args.q + 1 <= k - 1 /\ k - 1 <= (n + 1) * args.q)
                     => writes'[k] = writes[k] + 1
       ELSE y' = y /\ writes' = writes /\ n' = n

\* C9: solve_lin takes the subintervals in order n = 0..N-1 and returns,
\* after exactly N passes, a vector of length N*q+1; index 0 holds the
\* initial value throughout; pass n assigns exactly the indices
\* n*q+1..(n+1)*q and leaves every entry at an index <= n*q unchanged, so
\* every index >= 1 is assigned exactly once.
C9_SequentialFrame == []SolveShape /\ [][SolveFrame]_vars

\* the second of three passes of a degree-2 solve has assigned indices 3
\* and 4, and the third has not yet run
C9_Witness ==
    /\ args.fn = "solve_lin" /\ pc = "loop" /\ args.q = 2 /\ n = 2
    /\ SolveN = 3
    /\ writes = <<1, 1, 1, 1, 1, 0, 0>>
    /\ y[5] # R(0) /\ y[5] # y[3] /\ y[6] = R(0)

(***************************************************************************)
(* get_err_lin, one action per subinterval of the loop of line 32.  The    *)
(* adjoint mesh has a single subinterval, so that the integrand is one     *)
(* polynomial on every subinterval of the reconciled grid.                 *)
(***************************************************************************)
\* for i in range(len(ty)): if ty[i]>tphi[-1]: ... break -- the first such
\* i at or after the given one, or -1 when the loop runs out
RECURSIVE FirstAbove(_, _, _)
FirstAbove(ty, last, i) ==
    IF i > Len(ty) - 1 THEN -1
    ELSE IF RLt(last, PyIndex(ty, i)) THEN i
    ELSE FirstAbove(ty, last, i + 1)

\* lines 18-26: the grid t, or nothing bound to t
Reconcile(ty, tphi) ==
    LET last == PyIndex(tphi, -1)
        i == FirstAbove(ty, last, 0)
    IN  IF PyIndex(ty, -1) = last THEN [bound |-> TRUE, t |-> ty]
        ELSE IF i = -1 THEN [bound |-> FALSE]
        ELSE [bound |-> TRUE, t |-> PySliceTo(ty, i) \o <<last>>]

\* lines 33-38: the contribution of subinterval n0 of the grid
LocalError(Y, phi, F, q, q2, ty, tphi, tt, n0) ==
    GaussQuad(PyIndex(tt, n0), PyIndex(tt, n0 + 1), 5 * q,
              [fn |-> "integrand", Y |-> Y, phi |-> phi, F |-> F, q |-> q,
               q2 |-> q2, ty |-> ty, tphi |-> tphi])

RECURSIVE SumSeq(_, _)
SumSeq(s, k) == IF k > Len(s) THEN R(0) ELSE RAdd(s[k], SumSeq(s, k + 1))

ErrDegrees == {1, 2}
ErrCoeffs == {R(0), R(1)}
\* nodal vectors: the constant 1 and a ramp
ErrNodal(len) == {[k \in 1..len |-> R(1)], [k \in 1..len |-> R(k)]}
ErrMeshes == UNION {{ToR(m) : m \in IncSeqs(N + 1, 0, ErrMaxT)} : N \in 1..ErrMaxT}
ErrTerminals == {Frac(k, 2) : k \in (-2)..(2 * ErrMaxT + 2)}

ErrArgs ==
    UNION {
        [fn : {"get_err_lin"},
         Y : ErrNodal((Len(sh[1]) - 1) * sh[2] + 1),
         phi : ErrNodal(sh[3] + 1),
         F : ErrCoeffs,
         q : {sh[2]},
         q2 : {sh[3]},
         ty : {sh[1]},
         tphi : {<<R(-2), e>> : e \in ErrTerminals}]
      : sh \in ErrMeshes \X ErrDegrees \X ErrDegrees}

InitErr ==
    /\ pc = "call"
    /\ args \in ErrArgs
    /\ NoLocals
    /\ ret = [status |-> "none"]

\* lines 18-31; with t unbound, len(t) of line 30 raises
ErrReconcile ==
    /\ pc = "call"
    /\ args.fn = "get_err_lin"
    /\ LET r == Reconcile(args.ty, args.tphi)
       IN  IF r.bound
           THEN /\ grid' = r.t
                /\ Eloc' = [k \in 1..(Len(r.t) - 1) |-> R(0)]
                /\ pc' = "loop"
                /\ UNCHANGED ret
           ELSE /\ pc' = "raised"
                /\ ret' = [status |-> "UnboundLocalError"]
                /\ UNCHANGED <<grid, Eloc>>
    /\ n' = 0
    /\ UNCHANGED <<args, y, writes>>

\* lines 32-38, one pass of the outer loop
ErrStep ==
    /\ pc = "loop"
    /\ args.fn = "get_err_lin"
    /\ n < Len(grid) - 1
    /\ Eloc' = [Eloc EXCEPT ![n + 1] =
                   RAdd(@, LocalError(args.Y, args.phi, args.F, args.q, args.q2,
                                      args.ty, args.tphi, grid, n))]
    /\ n' = n + 1
    /\ UNCHANGED <<pc, args, y, writes, grid, ret>>

\* lines 39-40
ErrReturn ==
    /\ pc = "loop"
    /\ args.fn = "get_err_lin"
    /\ n = Len(grid) - 1
    /\ ret' = [status |-> "returned", E |-> SumSeq(Eloc, 1), Eloc |-> Eloc, t |-> grid]
    /\ pc' = "done"
    /\ UNCHANGED <<args, locals>>

NextErr == ErrReconcile \/ ErrStep \/ ErrReturn

SpecErr == InitErr /\ [][NextErr]_vars

(***************************************************************************)
(* Claims about get_err_lin.                                               *)
(***************************************************************************)
ErrTerminal == args.tphi[Len(args.tphi)]
ErrReconciled == args.fn = "get_err_lin" /\ pc \in {"loop", "done"}

\* the forward nodes strictly less than tphi[-1], in order
ErrNodesBelow ==
    LET below == {k \in 1..Len(args.ty) : RLt(args.ty[k], ErrTerminal)}
    IN  [k \in 1..Cardinality(below) |-> args.ty[k]]

\* C5: the reconciled grid is ty when ty[-1] = tphi[-1], and otherwise the
\* forward nodes strictly less than tphi[-1] followed by tphi[-1]; for
\* ty[0] < tphi[-1] <= ty[-1] it is strictly increasing and ends at tphi[-1],
\* and the returned vector has one entry per subinterval of it.
C5_ReconciledGrid ==
    (/\ ErrReconciled
     /\ RLt(args.ty[1], ErrTerminal) /\ RLe(ErrTerminal, args.ty[Len(args.ty)]))
    => /\ grid = IF args.ty[Len(args.ty)] = ErrTerminal THEN args.ty
                 ELSE ErrNodesBelow \o <<ErrTerminal>>
       /\ \A k \in 1..(Len(grid) - 1) : RLt(grid[k], grid[k + 1])
       /\ grid[Len(grid)] = ErrTerminal
       /\ pc = "done" => ret.t = grid /\ Len(ret.Eloc) = Len(grid) - 1

\* C6: when tphi[-1] > ty[-1] or tphi[-1] < ty[0], get_err_lin reports a
\* failure before any quadrature and returns no error estimate.
C6_UnreachableTerminalReported ==
    (/\ args.fn = "get_err_lin"
     /\ RLt(args.ty[Len(args.ty)], ErrTerminal) \/ RLt(ErrTerminal, args.ty[1]))
    => pc \in {"call", "raised"}

====
